---- MODULE Spec2Model ----
(***************************************************************************)
(* Model of leuchtturm.py: a command-line tool that keeps a list of        *)
(* notebook directories under a root directory and persists it, together   *)
(* with the author's identity, in the JSON sidecar `.ltrc.json`.           *)
(*                                                                         *)
(* Every command is one short-lived process: Leuchtturm.__init__ loads the *)
(* sidecar (Start), then exactly one of config / readme / create / remove  *)
(* runs and the process exits.  The state is the root directory (sidecar,  *)
(* README.md, LEUCHTTURM.svg, the sub-directories with their notebook) and *)
(* the in-memory RuntimeConfig of every process.                           *)
(*                                                                         *)
(* Notebook names are single path components, written as sequences of      *)
(* character codes so that Python's lexicographic order of `sorted` and    *)
(* the `replace(" ", "%20")` of nbviewer_link are computed, not assumed.   *)
(***************************************************************************)
EXTENDS Integers, Sequences, FiniteSets, TLC

\* ------------------------------------------------------------------ bounds
MaxNames == 2
MaxFileLen == 4
MaxRuns == 4

\* "b", "a", "a b", "B", "aa"
AllNames == << <<98>>, <<97>>, <<97, 32, 98>>, <<66>>, <<97, 97>> >>

Names == {AllNames[i] : i \in 1..(IF MaxNames < Len(AllNames) THEN MaxNames ELSE Len(AllNames))}

\* what the user may type at an `input(...)` prompt
Responses == {"y", "Y", "n", "N", ""}

SeqProcs == {1}
ConcProcs == {1, 2}
AllProcs == SeqProcs \cup ConcProcs

\* an optional value: <<>> is Python's None / an absent file, <<v>> holds v
None == <<>>

Some(v) == <<v>>

\* command-line values of `config`: fire hands over a str or an int
StrArg(v) == Some([int |-> FALSE, v |-> v])

IntArg(v) == Some([int |-> TRUE, v |-> v])

\* the (author, author_email, author_github_id) the user passes to `config`
ConfigCalls ==
    { <<None, None, None>>,
      <<StrArg("Jin"), None, None>>,
      <<None, StrArg("jin@x.org"), IntArg(7)>> }

LT_LOGO == "<svg/>"

\* ------------------------------------------------------- pure functions
Range(s) == {s[i] : i \in 1..Len(s)}

\* Python's str comparison a < b: lexicographic on code points
RECURSIVE LexLess(_, _)
LexLess(a, b) ==
    IF b = <<>> THEN FALSE
    ELSE IF a = <<>> THEN TRUE
    ELSE IF Head(a) # Head(b) THEN Head(a) < Head(b)
    ELSE LexLess(Tail(a), Tail(b))

RECURSIVE InsertSorted(_, _)
InsertSorted(x, s) ==
    IF s = <<>> THEN <<x>>
    ELSE IF LexLess(x, Head(s)) THEN <<x>> \o s
    ELSE <<Head(s)>> \o InsertSorted(x, Tail(s))

\* sorted(...) dropped from RuntimeConfig.__init__
SortedListKept(s) == s

\* sorted(list): ascending, duplicates kept
RECURSIVE SortedList(_)
SortedList(s) ==
    IF s = <<>> THEN <<>>
    ELSE InsertSorted(Head(s), SortedList(Tail(s)))

\* list.pop() in place of list.remove(x)
ListRemoveLast(s, x) == SubSeq(s, 1, Len(s) - 1)

\* list.remove(x): drops the first occurrence
RECURSIVE ListRemove(_, _)
ListRemove(s, x) ==
    IF s = <<>> THEN <<>>
    ELSE IF Head(s) = x THEN Tail(s)
    ELSE <<Head(s)>> \o ListRemove(Tail(s), x)

\* str.lower() on the responses
Lower(r) ==
    CASE r = "Y" -> "y"
      [] r = "N" -> "n"
      [] OTHER -> r

\* str(value) of a command-line value
Str(a) == IF a.int THEN ToString(a.v) ELSE a.v

\* nb_name.replace(" ", "%20")
RECURSIVE ReplaceSpaces(_)
ReplaceSpaces(n) ==
    IF n = <<>> THEN <<>>
    ELSE IF Head(n) = 32 THEN <<37, 50, 48>> \o ReplaceSpaces(Tail(n))
    ELSE <<Head(n)>> \o ReplaceSpaces(Tail(n))

\* RuntimeConfig.__init__(rc)
RuntimeConfigInit(data) ==
    [name |-> data.name,
     author |-> data.author,
     author_email |-> data.author_email,
     author_github_id |-> data.author_github_id,
     contents |-> SortedList(data.contents)]

\* RuntimeConfig.empty()
RuntimeConfigEmpty ==
    RuntimeConfigInit([name |-> "LEUCHTTURM",
                       author |-> "Author Name",
                       author_email |-> "author@email.com",
                       author_github_id |-> "",
                       contents |-> <<>>])

\* export that writes the contents in sorted order
ExportSorted(c) ==
    [name |-> c.name,
     author |-> c.author,
     author_email |-> c.author_email,
     author_github_id |-> c.author_github_id,
     contents |-> SortedList(c.contents)]

\* the JSON document RuntimeConfig.export writes
Export(c) ==
    [name |-> c.name,
     author |-> c.author,
     author_email |-> c.author_email,
     author_github_id |-> c.author_github_id,
     contents |-> c.contents]

\* Leuchtturm.__init__: load the sidecar if it exists, else the empty config
LeuchtturmInit(file) ==
    IF file # None THEN RuntimeConfigInit(file[1]) ELSE RuntimeConfigEmpty

\* the notebook _generate_nb writes into the new directory
GenerateNb(c, n) ==
    [title |-> n, author |-> c.author, author_email |-> c.author_email]

\* the three assignments of Leuchtturm.config
ConfigUpdate(c, a, e, g) ==
    [c EXCEPT !.author = IF a # None THEN Str(a[1]) ELSE @,
              !.author_email = IF e # None THEN Str(e[1]) ELSE @,
              !.author_github_id = IF g # None THEN Str(g[1]) ELSE @]

NbviewerLink(c, n) ==
    [github_id |-> c.author_github_id, repo |-> c.name, converted |-> ReplaceSpaces(n)]

\* the text readme writes into README.md
ReadmeText(c) ==
    [title |-> c.name,
     author |-> c.author,
     author_email |-> c.author_email,
     links |-> [i \in 1..Len(c.contents) |->
                   [text |-> c.contents[i], link |-> NbviewerLink(c, c.contents[i])]]]

\* os.makedirs(nb_dir, exist_ok=True) in place of os.mkdir(nb_dir)
MkdirNeverFails(ds, n) == FALSE

\* os.mkdir(nb_dir) raises FileExistsError
MkdirFails(ds, n) == n \in DOMAIN ds

\* self._rc.contents.append(nb_name)
AppendContent(c, n) == [c EXCEPT !.contents = Append(@, n)]

\* remove that forgets to drop the name from the contents
RemoveContentKept(c, n) == c

\* self._rc.contents.remove(nb_name)
RemoveContent(c, n) == [c EXCEPT !.contents = ListRemove(@, n)]

\* remove that goes on unless the answer is "n"
AffirmativeLoose(r) == Lower(r) # "n"

\* input(...).lower() == "y" in remove
Affirmative(r) == Lower(r) = "y"

\* readme that compares the answer without lower()
DeclinedExact(r) == r = "n"

\* input(...).lower() == "n" in readme
Declined(r) == Lower(r) = "n"

\* ------------------------------------------------------------------ state
VARIABLES
    sidecar,     \* .ltrc.json: None or Some(JSON document)
    readmeFile,  \* README.md: None or Some(text)
    logoFile,    \* LEUCHTTURM.svg: None or Some(text)
    dirs,        \* sub-directory name -> the notebook inside it
    pc,          \* per process: "idle" (not running) or "ready" (constructed)
    rc,          \* per process: self._rc
    created,     \* history: names created by create and not removed since
    last,        \* history: the command that ran last
    runs         \* history: how many processes have been started (concurrent runs)

vars == <<sidecar, readmeFile, logoFile, dirs, pc, rc, created, last, runs>>

NoCmd ==
    [cmd |-> "none", proc |-> 1, name |-> <<>>, resp |-> "", prompted |-> FALSE,
     result |-> "none", undo |-> None, args |-> None]

\* what ran: the command, its argument, the response typed at its prompt (if
\* it prompted) and how it ended; undo is None or Some(the tracked set before
\* the create that this command follows or is); args are those of config
Cmd(c, p, n, r, pr, res, u) ==
    [cmd |-> c, proc |-> p, name |-> n, resp |-> r, prompted |-> pr,
     result |-> res, undo |-> u, args |-> None]

WithDir(ds, n, nb) == [m \in DOMAIN ds \cup {n} |-> IF m = n THEN nb ELSE ds[m]]

WithoutDir(ds, n) == [m \in DOMAIN ds \ {n} |-> ds[m]]

\* ------------------------------------------------------------ operations
\* an empty root directory and no process running
Init ==
    /\ sidecar = None
    /\ readmeFile = None
    /\ logoFile = None
    /\ dirs = <<>>
    /\ pc = [p \in AllProcs |-> "idle"]
    /\ rc = [p \in AllProcs |-> RuntimeConfigEmpty]
    /\ created = {}
    /\ last = NoCmd
    /\ runs = 0

\* Leuchtturm.__init__
Start(p) ==
    /\ pc[p] = "idle"
    /\ pc' = [pc EXCEPT ![p] = "ready"]
    /\ rc' = [rc EXCEPT ![p] = LeuchtturmInit(sidecar)]
    /\ UNCHANGED <<sidecar, readmeFile, logoFile, dirs, created, last>>

\* Leuchtturm.config
Config(p, a, e, g) ==
    /\ pc[p] = "ready"
    /\ pc' = [pc EXCEPT ![p] = "idle"]
    /\ rc' = [rc EXCEPT ![p] = ConfigUpdate(rc[p], a, e, g)]
    /\ sidecar' = Some(Export(rc'[p]))
    /\ last' = [Cmd("config", p, <<>>, "", FALSE, "saved", None) EXCEPT !.args = <<a, e, g>>]
    /\ UNCHANGED <<readmeFile, logoFile, dirs, created, runs>>

\* Leuchtturm.readme
Readme(p, r) ==
    /\ pc[p] = "ready"
    /\ pc' = [pc EXCEPT ![p] = "idle"]
    /\ logoFile' = IF logoFile = None THEN Some(LT_LOGO) ELSE logoFile
    /\ IF readmeFile # None /\ Declined(r)
       THEN /\ readmeFile' = readmeFile
            /\ last' = Cmd("readme", p, <<>>, r, TRUE, "declined", None)
       ELSE /\ readmeFile' = Some(ReadmeText(rc[p]))
            /\ last' = Cmd("readme", p, <<>>, IF readmeFile # None THEN r ELSE "",
                           readmeFile # None, "written", None)
    /\ UNCHANGED <<sidecar, dirs, rc, created, runs>>

\* Leuchtturm.create
Create(p, n) ==
    /\ pc[p] = "ready"
    /\ pc' = [pc EXCEPT ![p] = "idle"]
    /\ IF MkdirFails(dirs, n)
       THEN /\ last' = Cmd("create", p, n, "", FALSE, "exists", None)
            /\ UNCHANGED <<sidecar, dirs, rc, created>>
       ELSE /\ dirs' = WithDir(dirs, n, GenerateNb(rc[p], n))
            /\ rc' = [rc EXCEPT ![p] = AppendContent(rc[p], n)]
            /\ sidecar' = Some(Export(rc'[p]))
            /\ created' = created \cup {n}
            /\ last' = Cmd("create", p, n, "", FALSE, "created", Some(Range(rc[p].contents)))
    /\ UNCHANGED <<readmeFile, logoFile, runs>>

\* Leuchtturm.remove
Remove(p, n, r) ==
    /\ pc[p] = "ready"
    /\ pc' = [pc EXCEPT ![p] = "idle"]
    /\ IF n \notin Range(rc[p].contents)
       THEN /\ last' = Cmd("remove", p, n, "", FALSE, "untracked", None)
            /\ UNCHANGED <<sidecar, dirs, rc, created>>
       ELSE IF ~Affirmative(r)
       THEN /\ last' = Cmd("remove", p, n, r, TRUE, "kept", None)
            /\ UNCHANGED <<sidecar, dirs, rc, created>>
       ELSE IF n \notin DOMAIN dirs
       THEN \* rmtree raises FileNotFoundError, the process dies
            /\ last' = Cmd("remove", p, n, r, TRUE, "crashed", None)
            /\ UNCHANGED <<sidecar, dirs, rc, created>>
       ELSE /\ dirs' = WithoutDir(dirs, n)
            /\ rc' = [rc EXCEPT ![p] = RemoveContent(rc[p], n)]
            /\ sidecar' = Some(Export(rc'[p]))
            /\ created' = created \ {n}
            /\ last' = Cmd("remove", p, n, r, TRUE, "removed",
                           IF last.cmd = "create" /\ last.result = "created" /\ last.name = n
                           THEN last.undo ELSE None)
    /\ UNCHANGED <<readmeFile, logoFile, runs>>

\* fire.Fire(Leuchtturm): the one command of a process, with the arguments
\* and responses the user may give
Run(p, calls, resps) ==
    \/ \E c \in calls : Config(p, c[1], c[2], c[3])
    \/ \E r \in resps : Readme(p, r)
    \/ \E n \in Names : Create(p, n)
    \/ \E n \in Names, r \in resps : Remove(p, n, r)

\* commands run one after the other
Next ==
    \E p \in SeqProcs :
        \/ Start(p) /\ UNCHANGED runs
        \/ Run(p, ConfigCalls, Responses)

Spec == Init /\ [][Next]_vars

\* --------------------------------------------- a root that is not empty
\* a README.md and a directory the user made by hand
HandWrittenReadme == [title |-> "notes", author |-> "", author_email |-> "", links |-> <<>>]

ForeignNb == [title |-> <<>>, author |-> "", author_email |-> ""]

\* the tool is run for the first time in a directory that may already hold a
\* README.md and one sub-directory
InitEnv ==
    /\ sidecar = None
    /\ readmeFile \in {None, Some(HandWrittenReadme)}
    /\ logoFile = None
    /\ dirs \in {<<>>} \cup {[m \in {n} |-> ForeignNb] : n \in Names}
    /\ pc = [p \in AllProcs |-> "idle"]
    /\ rc = [p \in AllProcs |-> RuntimeConfigEmpty]
    /\ created = {}
    /\ last = NoCmd
    /\ runs = 0

SpecEnv == InitEnv /\ [][Next]_vars

\* ------------------------------------------- loading an arbitrary sidecar
SeqsUpTo(S, k) == UNION {[1..m -> S] : m \in 0..k}

\* a sidecar the user may have edited by hand: any order, any repetition
InitLoad ==
    /\ sidecar \in {None} \cup
          {Some([name |-> "LEUCHTTURM", author |-> a, author_email |-> "author@email.com",
                 author_github_id |-> "", contents |-> cs]) :
             a \in {"Author Name", "Jin"}, cs \in SeqsUpTo(Names, MaxFileLen)}
    /\ readmeFile = None
    /\ logoFile = None
    /\ dirs = <<>>
    /\ pc = [p \in AllProcs |-> "idle"]
    /\ rc = [p \in AllProcs |-> RuntimeConfigEmpty]
    /\ created = {}
    /\ last = NoCmd
    /\ runs = 0

NextLoad == \E p \in SeqProcs : Start(p) /\ UNCHANGED runs

SpecLoad == InitLoad /\ [][NextLoad]_vars

\* ------------------------------------------------ two processes at once
\* at most MaxRuns processes are started in all
NextConc ==
    \E p \in ConcProcs :
        \/ runs < MaxRuns /\ Start(p) /\ runs' = runs + 1
        \/ Run(p, {<<None, None, None>>}, {"y", "n"})

SpecConc == Init /\ [][NextConc]_vars

\* ================================================================ claims
FileContents == IF sidecar = None THEN <<>> ELSE sidecar[1].contents

NoDup(s) == \A i, j \in 1..Len(s) : s[i] = s[j] => i = j

IsSorted(s) == \A i \in 1..(Len(s) - 1) : ~LexLess(s[i + 1], s[i])

Count(s, x) == Cardinality({i \in 1..Len(s) : s[i] = x})

\* p has just run a command: it was constructed and has exited
Ran(p, c) == pc[p] = "ready" /\ pc'[p] = "idle" /\ last'.cmd = c /\ last'.proc = p

FilesUnchanged == UNCHANGED <<sidecar, readmeFile, logoFile, dirs>>

C2_RoundTripIdentical ==
    sidecar # None => Some(Export(LeuchtturmInit(sidecar))) = sidecar

\* C3 as claimed: the contents a process holds after loading are sorted and
\* free of duplicates whatever the file's contents array is.
C3_LoadedSortedNoDup ==
    \A p \in SeqProcs :
        pc[p] = "ready" => IsSorted(rc[p].contents) /\ NoDup(rc[p].contents)

\* C3 as amended: the contents a process holds after loading are sorted and
\* hold every name exactly as often as the file's contents array does.
C3_LoadedSortedSameNames ==
    \A p \in SeqProcs :
        pc[p] = "ready" =>
            /\ IsSorted(rc[p].contents)
            /\ Len(rc[p].contents) = Len(FileContents)
            /\ \A n \in Names : Count(rc[p].contents, n) = Count(FileContents, n)

C3_Witness ==
    \E p \in SeqProcs :
        /\ pc[p] = "ready"
        /\ ~NoDup(rc[p].contents)
        /\ rc[p].contents # FileContents

\* C4: create of a name whose directory exists reports AlreadyExists and
\* changes nothing: the process's contents, the sidecar (absent stays absent),
\* the directory and every other file are as before.
C4_CreateExistingUnchanged ==
    [][\A p \in SeqProcs :
          (Ran(p, "create") /\ last'.name \in DOMAIN dirs) =>
              /\ last'.result = "exists"
              /\ rc'[p] = rc[p]
              /\ FilesUnchanged]_vars

C4_Witness ==
    /\ last.cmd = "create" /\ last.result = "exists"
    /\ last.name \in DOMAIN dirs
    /\ sidecar = None

\* C5: create(name) of a name without directory followed at once by a
\* confirmed remove(name) leaves the tracked set, in memory and in the
\* sidecar, as it was before the create, and no directory of that name.
C5_CreateRemoveRestores ==
    (last.cmd = "remove" /\ last.result = "removed" /\ last.undo # None) =>
        /\ Range(FileContents) = last.undo[1]
        /\ Range(rc[last.proc].contents) = last.undo[1]
        /\ last.name \notin DOMAIN dirs

C5_Witness ==
    /\ last.cmd = "remove" /\ last.result = "removed" /\ last.undo # None
    /\ last.undo[1] # {}
    /\ pc[last.proc] = "idle"

\* C6: remove changes nothing unless the name is tracked and the answer is
\* affirmative: an untracked name is reported without a prompt, a tracked
\* name prompts, any other answer keeps everything, and an affirmative one
\* deletes the directory, drops the name and saves the sidecar.
C6_RemoveGuarded ==
    [][\A p \in SeqProcs :
          Ran(p, "remove") =>
              LET n == last'.name
                  tracked == n \in Range(rc[p].contents)
                  yes == last'.prompted /\ last'.resp \in {"y", "Y"}
              IN  /\ tracked <=> last'.prompted
                  /\ ~tracked => last'.result = "untracked"
                  /\ ~(tracked /\ yes) => rc'[p] = rc[p] /\ FilesUnchanged
                  /\ (tracked /\ yes) =>
                        /\ last'.result = "removed"
                        /\ n \notin DOMAIN dirs'
                        /\ n \notin Range(rc'[p].contents)
                        /\ sidecar' # None
                        /\ sidecar'[1].contents = rc'[p].contents
                        /\ UNCHANGED <<readmeFile, logoFile>>]_vars

C6_Witness ==
    /\ last.cmd = "remove" /\ last.result = "kept"
    /\ last.resp \in {"N", ""}
    /\ last.name \in DOMAIN dirs

\* C7: config changes exactly the identity fields passed non-null and leaves
\* name and contents as they were, in memory and in the sidecar it saves:
\* the saved name and contents array equal those of the file loaded.
C7_ConfigFrame ==
    [][\A p \in SeqProcs :
          Ran(p, "config") =>
              LET a == last'.args[1]
                  e == last'.args[2]
                  g == last'.args[3]
              IN  /\ rc'[p].name = rc[p].name
                  /\ rc'[p].contents = rc[p].contents
                  /\ a = None => rc'[p].author = rc[p].author
                  /\ e = None => rc'[p].author_email = rc[p].author_email
                  /\ g = None => rc'[p].author_github_id = rc[p].author_github_id
                  /\ sidecar' # None
                  /\ sidecar'[1].author = rc'[p].author
                  /\ sidecar'[1].author_email = rc'[p].author_email
                  /\ sidecar'[1].author_github_id = rc'[p].author_github_id
                  /\ sidecar # None =>
                        /\ sidecar'[1].name = sidecar[1].name
                        /\ sidecar'[1].contents = sidecar[1].contents]_vars

\* C8: when README.md exists and the user answers no, readme leaves it as it
\* is and returns normally; README.md is written only when the user does not
\* decline.
C8_DeclineKeepsReadme ==
    [][\A p \in SeqProcs :
          Ran(p, "readme") =>
              LET declines == readmeFile # None /\ last'.resp \in {"n", "N"}
              IN  /\ declines => readmeFile' = readmeFile /\ last'.result = "declined"
                  /\ ~declines => last'.result = "written"
                  /\ last'.result = "written" => readmeFile' = Some(ReadmeText(rc[p]))]_vars

C8_Witness ==
    /\ last.cmd = "readme" /\ last.result = "declined"
    /\ last.resp = "N"
    /\ readmeFile = Some(HandWrittenReadme)

\* C9: a readme in which the user declines the overwrite prompt creates or
\* modifies no file under the root, the logo included.
C9_DeclineWritesNothing ==
    [][\A p \in SeqProcs :
          (Ran(p, "readme") /\ readmeFile # None /\ last'.resp \in {"n", "N"}) =>
              FilesUnchanged]_vars

\* C10: with two processes on one root the sidecar is whatever the process
\* that saved last held in memory, nothing of the other's write is kept.
C10_LastWriterWins ==
    (last.result \in {"saved", "created", "removed"} /\ pc[last.proc] = "idle") =>
        /\ sidecar # None
        /\ sidecar[1].name = rc[last.proc].name
        /\ sidecar[1].author = rc[last.proc].author
        /\ sidecar[1].author_email = rc[last.proc].author_email
        /\ sidecar[1].author_github_id = rc[last.proc].author_github_id
        /\ sidecar[1].contents = rc[last.proc].contents

\* the lost update: a directory made by the earlier create is not tracked
C10_Witness ==
    \E n \in created :
        /\ n \in DOMAIN dirs
        /\ sidecar # None
        /\ n \notin Range(sidecar[1].contents)
        /\ last.cmd = "create" /\ last.result = "created" /\ last.name # n

====
